---------------------------- MODULE Spec2Model ----------------------------
(***************************************************************************)
(* A model of src/app.py: the document synchroniser load_files_to_db (the  *)
(* directory walk, text extraction, chunking and upsert into the Chroma    *)
(* collection) and the chat query handler (retrieval, context assembly,    *)
(* prompt, completion, citation footer).                                   *)
(*                                                                         *)
(* Strings of the program are sequences of one-character strings, so that  *)
(* slicing, concatenation, str() and endswith() are computed, not assumed. *)
(***************************************************************************)
EXTENDS Integers, Sequences, FiniteSets, TLC

VARIABLES
    exists,      \* whether the ./data directory exists on disk
    files,       \* the directory's entries: filename -> what reading it gives
    collection,  \* the persistent Chroma collection: a set of entries
    messages,    \* st.session_state.messages
    run          \* what the script run that has just ended did (its locals
                 \* and its calls); Idle when the directory changed since

vars == <<exists, files, collection, messages, run>>

-----------------------------------------------------------------------------
(* Bounds of the model.                                                    *)

\* the longest .txt content of the directories explored by Spec and SpecQuery
MaxDocLen == 1400
\* the length of the text of one extractable .pdf page
PageLen == 500
\* the longest text explored by SpecChunk: every length 0..MaxLen is checked
MaxLen == 2000
\* the number of chat turns of one session explored by SpecQuery
MaxTurns == 1

-----------------------------------------------------------------------------
(* Program constants.                                                      *)

chunk_size == 800
overlap == 150
n_results == 3

-----------------------------------------------------------------------------
(* Strings.                                                                *)

Min(a, b) == IF a < b THEN a ELSE b

Digit == <<"0", "1", "2", "3", "4", "5", "6", "7", "8", "9">>

\* str(i) of a non-negative int
RECURSIVE Str(_)
Str(n) == IF n < 10 THEN <<Digit[n + 1]>>
          ELSE Str(n \div 10) \o <<Digit[(n % 10) + 1]>>

\* s.endswith(suffix)
EndsWith(s, suffix) ==
    /\ Len(s) >= Len(suffix)
    /\ SubSeq(s, Len(s) - Len(suffix) + 1, Len(s)) = suffix

\* s[i : j] for 0 <= i <= j (Python clips j to len(s))
Slice(s, i, j) == SubSeq(s, i + 1, Min(j, Len(s)))

\* list(range(start, stop, step)) for step > 0
RECURSIVE Range(_, _, _)
Range(start, stop, step) ==
    IF start >= stop THEN <<>>
    ELSE <<start>> \o Range(start + step, stop, step)

DOT_TXT == <<".", "t", "x", "t">>
DOT_PDF == <<".", "p", "d", "f">>
PART == <<"_", "p", "a", "r", "t", "_">>
NL == "\n"

\* the status string load_files_to_db returns
SyncDoneMsg == "all local documents (PDF/TXT) synchronised"

-----------------------------------------------------------------------------
(* The directory.                                                          *)

A_TXT == <<"a", ".", "t", "x", "t">>
\* a name that itself holds "_part_<digits>"
B_PDF == <<"b", "_", "p", "a", "r", "t", "_", "7", ".", "p", "d", "f">>
C_MD == <<"c", ".", "m", "d">>
Filenames == {A_TXT, B_PDF, C_MD}

Alphabet == <<"k", "l", "m", "n", "o", "p", "q">>

\* a text of length len; texts of different seeds differ at every position
Text(seed, len) == [p \in 1..len |-> Alphabet[((p + seed) % 7) + 1]]

\* A directory entry is described by what reading it gives: for a .txt file
\* open()/read() raises or returns text; for a .pdf file PdfReader raises or
\* gives pages, and each page's extract_text() raises or returns a text
\* (the empty text for a page without extractable text).
Absent == [present |-> FALSE, raises |-> FALSE, text |-> <<>>, pages |-> <<>>]
TxtFile(t) == [present |-> TRUE, raises |-> FALSE, text |-> t, pages |-> <<>>]
PdfFile(ps) == [present |-> TRUE, raises |-> FALSE, text |-> <<>>, pages |-> ps]
Unreadable == [present |-> TRUE, raises |-> TRUE, text |-> <<>>, pages |-> <<>>]
Page(t) == [raises |-> FALSE, text |-> t]
BadPage == [raises |-> TRUE, text |-> <<>>]

Listing == {f \in Filenames : files[f].present}

-----------------------------------------------------------------------------
(* load_files_to_db.                                                       *)

\* lines 47-49: the pages are extracted in order; a page that raises ends
\* the loop with the text of the pages before it kept in content
RECURSIVE PdfContent(_, _, _)
PdfContent(pages, k, content) ==
    IF k > Len(pages) \/ pages[k].raises THEN content
    ELSE PdfContent(pages, k + 1,
                    IF pages[k].text # <<>>
                    THEN content \o pages[k].text \o <<NL>>
                    ELSE content)

\* lines 36-51: the content extracted from one directory entry
Content(filename, file) ==
    IF EndsWith(filename, DOT_TXT)
    THEN IF file.raises THEN <<>> ELSE file.text
    ELSE IF EndsWith(filename, DOT_PDF)
    THEN IF file.raises THEN <<>> ELSE PdfContent(file.pages, 1, <<>>)
    ELSE <<>>

\* lines 42-43, 50-51: whether st.sidebar.error is called for the entry
ReadFails(filename, file) ==
    IF EndsWith(filename, DOT_TXT) THEN file.raises
    ELSE IF EndsWith(filename, DOT_PDF)
    THEN file.raises \/ \E k \in 1..Len(file.pages) : file.pages[k].raises
    ELSE FALSE

\* ChunkId with a fault: the id numbered after the entries the collection holds
ChunkIdCounted(filename, i) == filename \o PART \o Str(i + Cardinality(collection))

\* line 57
ChunkId(filename, i) == filename \o PART \o Str(i)

\* ChunkOffsets with a fault: a step of chunk_size (no overlap), and a step
\* of chunk_size + overlap
ChunkOffsetsNoOverlap(content) == Range(0, Len(content), chunk_size)

ChunkOffsetsGap(content) == Range(0, Len(content), chunk_size + overlap)

\* line 55: the offsets of the chunks of a content
ChunkOffsets(content) == Range(0, Len(content), chunk_size - overlap)

\* lines 53-62: the upserts of one entry, in order
FileUpserts(filename, content) ==
    IF content # <<>>
    THEN LET offs == ChunkOffsets(content)
         IN  [k \in 1..Len(offs) |->
                [id |-> ChunkId(filename, offs[k]),
                 document |-> Slice(content, offs[k], offs[k] + chunk_size),
                 metadata |-> [source |-> filename]]]
    ELSE <<>>

\* Upsert with a fault: an insert that never replaces, and a replacement of
\* all the entries of the entry's source
UpsertAdd(col, e) == col \cup {e}

UpsertReplacingSource(col, e) == {x \in col : x.metadata.source # e.metadata.source} \cup {e}

\* collection.upsert of one entry: insert, or replace the entry of that id
Upsert(col, e) == {x \in col : x.id # e.id} \cup {e}

RECURSIVE UpsertAll(_, _, _)
UpsertAll(col, ups, k) ==
    IF k > Len(ups) THEN col ELSE UpsertAll(Upsert(col, ups[k]), ups, k + 1)

Ids(ups) == [k \in 1..Len(ups) |-> ups[k].id]

\* SyncLoop with a fault: the loop ends at the first entry whose read fails
RECURSIVE SyncLoopStop(_, _, _, _)
SyncLoopStop(order, k, st, left) ==
    IF k > Len(order) \/ st.raised \/ st.errors # <<>> THEN st
    ELSE LET filename == order[k]
             file == files[filename]
             ups == FileUpserts(filename, Content(filename, file))
             n == Min(Len(ups), left)
             done == SubSeq(ups, 1, n)
         IN  SyncLoopStop(order, k + 1,
                [col |-> UpsertAll(st.col, done, 1),
                 errors |-> IF ReadFails(filename, file)
                            THEN Append(st.errors, filename) ELSE st.errors,
                 upserted |-> st.upserted \o Ids(done),
                 raised |-> n < Len(ups)],
                left - n)

\* lines 34-62: the loop over the entries in os.listdir's order; `left' is the
\* number of upserts the collection still accepts (the next one raises,
\* which ends the function)
RECURSIVE SyncLoop(_, _, _, _)
SyncLoop(order, k, st, left) ==
    IF k > Len(order) \/ st.raised THEN st
    ELSE LET filename == order[k]
             file == files[filename]
             ups == FileUpserts(filename, Content(filename, file))
             n == Min(Len(ups), left)
             done == SubSeq(ups, 1, n)
         IN  SyncLoop(order, k + 1,
                [col |-> UpsertAll(st.col, done, 1),
                 errors |-> IF ReadFails(filename, file)
                            THEN Append(st.errors, filename) ELSE st.errors,
                 upserted |-> st.upserted \o Ids(done),
                 raised |-> n < Len(ups)],
                left - n)

\* the orders os.listdir may give the entries in
Orders(S) ==
    {o \in [1..Cardinality(S) -> S] : \A i, j \in 1..Cardinality(S) : o[i] = o[j] => i = j}

RECURSIVE CountUpserts(_, _)
CountUpserts(order, k) ==
    IF k > Len(order) THEN 0
    ELSE Len(FileUpserts(order[k], Content(order[k], files[order[k]])))
         + CountUpserts(order, k + 1)

SyncStart(col) == [col |-> col, errors |-> <<>>, upserted |-> <<>>, raised |-> FALSE]

Idle == [kind |-> "idle", raised |-> FALSE]

SyncRun(st) ==
    [kind |-> "sync",
     msg |-> IF st.raised THEN "" ELSE SyncDoneMsg,
     raised |-> st.raised,
     errors |-> st.errors,
     upserted |-> st.upserted,
     \* whether the run before this one was a completed pass over the same
     \* directory
     again |-> run.kind = "sync" /\ ~run.raised]

\* lines 27-63, 66-69: a pass in which every upsert succeeds
SyncOk ==
    \E order \in Orders(Listing) :
        LET st == SyncLoop(order, 1, SyncStart(collection), CountUpserts(order, 1))
        IN  /\ exists' = TRUE
            /\ collection' = st.col
            /\ run' = SyncRun(st)
            /\ UNCHANGED <<files, messages>>

\* lines 27-62: a pass in which an upsert raises (the index store fails);
\* the exception leaves load_files_to_db, the upserts before it stay
SyncRaises ==
    \E order \in Orders(Listing) :
        \E left \in 0..(CountUpserts(order, 1) - 1) :
            LET st == SyncLoop(order, 1, SyncStart(collection), left)
            IN  /\ exists' = TRUE
                /\ collection' = st.col
                /\ run' = SyncRun(st)
                /\ UNCHANGED <<files, messages>>

-----------------------------------------------------------------------------
(* The environment: the user changes the directory between script runs.    *)

LongText == Text(0, MaxDocLen)
ShortText == Text(3, MaxDocLen \div 2)
PageA == Text(1, PageLen)
PageB == Text(5, PageLen)

\* the contents explored for each filename
Choices(f) ==
    IF f = A_TXT
    THEN {Unreadable, TxtFile(<<>>), TxtFile(LongText), TxtFile(ShortText)}
    ELSE IF f = B_PDF
    THEN {Unreadable, PdfFile(<<BadPage>>), PdfFile(<<Page(PageA), BadPage>>),
          PdfFile(<<Page(PageA), Page(<<>>), Page(PageB)>>)}
    ELSE {TxtFile(ShortText)}

WriteFile ==
    \E f \in Filenames :
        \E c \in Choices(f) :
            /\ files[f] # c
            /\ files' = [files EXCEPT ![f] = c]
            /\ exists' = TRUE
            /\ run' = Idle
            /\ UNCHANGED <<collection, messages>>

RemoveFile ==
    \E f \in Listing :
        /\ files' = [files EXCEPT ![f] = Absent]
        /\ run' = Idle
        /\ UNCHANGED <<exists, collection, messages>>


-----------------------------------------------------------------------------
(* The chat query handler (lines 81-137).                                  *)

\* sep.join(parts)
RECURSIVE Join(_, _)
Join(parts, sep) ==
    IF parts = <<>> THEN <<>>
    ELSE IF Len(parts) = 1 THEN parts[1]
    ELSE parts[1] \o sep \o Join(Tail(parts), sep)

\* QueryResults with a fault: n_results left out (Chroma's default of 10)
QueryResultsDefault(col) ==
    LET n == Min(10, Cardinality(col))
    IN  {r \in [1..n -> col] : \A i, j \in 1..n : r[i] = r[j] => i = j}

\* line 90: collection.query(query_texts=[query], n_results=3).  The ranking
\* is the embedding model's, so any ranking may come back: the results are
\* any n distinct entries in any order, n being n_results or, for a smaller
\* collection, its size (Chroma returns what it has; an empty collection
\* gives an empty list).
QueryResults(col) ==
    LET n == Min(n_results, Cardinality(col))
    IN  {r \in [1..n -> col] : \A i, j \in 1..n : r[i] = r[j] => i = j}

\* line 99
FormatContext(doc, meta) == <<"[">> \o meta.source \o <<"]", ":", " ">> \o doc

\* lines 97-99
FormattedContexts(contexts, metadatas) ==
    [k \in 1..Min(Len(contexts), Len(metadatas)) |->
        FormatContext(contexts[k], metadatas[k])]

\* SourceLists with a fault: the sources of the results as they come, no set()
SourceListsRaw(metadatas) == {[k \in 1..Len(metadatas) |-> metadatas[k].source]}

\* line 102: list(set(...)); the order of a set's elements is unspecified,
\* so every order is a possible value
SourceLists(metadatas) ==
    Orders({metadatas[k].source : k \in 1..Len(metadatas)})

\* lines 105-123: the template's fixed lines, one element each (the Korean
\* text of the source is named, not spelled)
PromptRole == "line 106-110: you are an expert assistant; answer from [references], name the sources"
Instruction1 == "line 113: 1. leave out your own opinion, answer only from [references]"
Instruction2 == "line 114: 2. say which file (txt, pdf) was used"
DeclineInstruction == "line 115: 3. if [references] holds nothing related, answer that no related information was found in the provided documents"
ReferencesLabel == "line 117: [references]:"
QuestionLabel == "line 120: [question]: "
AnswerLabel == "line 122: answer:"

Prompt(context_text, query) ==
    <<PromptRole, Instruction1, Instruction2, DeclineInstruction, ReferencesLabel>>
    \o context_text \o <<QuestionLabel>> \o query \o <<AnswerLabel>>

\* Footer with a fault: no footer when there is no source
FooterUnlessEmpty(sources) ==
    IF sources = <<>> THEN <<>>
    ELSE <<NL, NL, "-", "-", "-", NL, "**referenced files:** ">> \o Join(sources, <<",", " ">>)

\* line 133
FooterLabel == "**referenced files:** "
Footer(sources) ==
    <<NL, NL, "-", "-", "-", NL, FooterLabel>> \o Join(sources, <<",", " ">>)

\* the questions and the completion service's answers explored
Queries == {<<"w", "h", "y", "?">>}
Responses == {<<"o", "k">>}

\* lines 81-137: one chat turn.  The completion service answers or raises;
\* when it raises the turn ends with the user's message alone appended.
QueryTurn(query, results, sources, answered, response) ==
    LET contexts == [k \in 1..Len(results) |-> results[k].document]
        metadatas == [k \in 1..Len(results) |-> results[k].metadata]
        context_text == Join(FormattedContexts(contexts, metadatas), <<NL, NL>>)
        prompt == Prompt(context_text, query)
        full_response == response \o Footer(sources)
        user == [role |-> "user", content |-> query]
    IN  /\ messages' = IF answered
                       THEN messages \o <<user, [role |-> "assistant", content |-> full_response]>>
                       ELSE Append(messages, user)
        /\ run' = [kind |-> "query",
                   retrieved |-> TRUE,
                   contexts |-> contexts,
                   metadatas |-> metadatas,
                   context_text |-> context_text,
                   sources |-> sources,
                   calls |-> <<prompt>>,
                   raised |-> ~answered,
                   response |-> IF answered THEN response ELSE <<>>,
                   full_response |-> IF answered THEN full_response ELSE <<>>]
        /\ UNCHANGED <<exists, files, collection>>

Turns == Cardinality({k \in 1..Len(messages) : messages[k].role = "user"})

Query ==
    /\ Turns < MaxTurns
    /\ \E query \in Queries :
         \E results \in QueryResults(collection) :
           \E sources \in SourceLists([k \in 1..Len(results) |-> results[k].metadata]) :
             \/ \E response \in Responses : QueryTurn(query, results, sources, TRUE, response)
             \/ QueryTurn(query, results, sources, FALSE, <<>>)

\* lines 81-90: a chat turn in which collection.query raises (the index store
\* fails); the user's message is appended, nothing else happens
QueryRaises ==
    /\ Turns < MaxTurns
    /\ \E query \in Queries :
         /\ messages' = Append(messages, [role |-> "user", content |-> query])
         /\ run' = [kind |-> "query", retrieved |-> FALSE, raised |-> TRUE, calls |-> <<>>]
    /\ UNCHANGED <<exists, files, collection>>

\* lines 72-73: a new browser session starts with no messages
NewSession ==
    /\ messages # <<>>
    /\ messages' = <<>>
    /\ run' = Idle
    /\ UNCHANGED <<exists, files, collection>>

-----------------------------------------------------------------------------

Init ==
    /\ exists = FALSE
    /\ files = [f \in Filenames |-> Absent]
    /\ collection = {}
    /\ messages = <<>>
    /\ run = Idle

Next == WriteFile \/ RemoveFile \/ SyncOk \/ SyncRaises

\* The synchroniser under every change of the directory.
Spec == Init /\ [][Next]_vars

\* The chat over the indexes of a directory that receives readable documents:
\* a.txt (three chunks) and b_part_7.pdf (two chunks).
PutDocument ==
    \E f \in {A_TXT, B_PDF} :
        /\ ~files[f].present
        /\ files' = [files EXCEPT ![f] = IF f = A_TXT THEN TxtFile(LongText)
                                         ELSE PdfFile(<<Page(PageA), Page(PageB)>>)]
        /\ exists' = TRUE
        /\ run' = Idle
        /\ UNCHANGED <<collection, messages>>

NextQuery == PutDocument \/ SyncOk \/ SyncRaises \/ Query \/ QueryRaises \/ NewSession

SpecQuery == Init /\ [][NextQuery]_vars

\* The chunking of one .txt document of every length up to MaxLen, into an
\* empty collection.
InitChunk ==
    /\ exists = TRUE
    /\ \E len \in 0..MaxLen :
         files = [f \in Filenames |-> IF f = A_TXT THEN TxtFile(Text(0, len)) ELSE Absent]
    /\ collection = {}
    /\ messages = <<>>
    /\ run = Idle

SpecChunk == InitChunk /\ [][SyncOk]_vars

-----------------------------------------------------------------------------
(* Reading a chunk id back: "<filename>_part_<i>" is split at its last     *)
(* "_part_", and <i> is read as a decimal number.                          *)

PartAt(id, p) == p + Len(PART) - 1 <= Len(id) /\ SubSeq(id, p, p + Len(PART) - 1) = PART

HasPart(id) == \E p \in 1..Len(id) : PartAt(id, p)

LastPart(id) ==
    CHOOSE p \in 1..Len(id) : PartAt(id, p) /\ \A q \in (p + 1)..Len(id) : ~PartAt(id, q)

IdFilename(id) == SubSeq(id, 1, LastPart(id) - 1)

IdDigits(id) == SubSeq(id, LastPart(id) + Len(PART), Len(id))

IsDigit(c) == \E d \in 1..10 : Digit[d] = c

DigitValue(c) == (CHOOSE d \in 1..10 : Digit[d] = c) - 1

RECURSIVE Number(_)
Number(ds) ==
    IF ds = <<>> THEN 0
    ELSE 10 * Number(SubSeq(ds, 1, Len(ds) - 1)) + DigitValue(ds[Len(ds)])

IdWellFormed(id) ==
    /\ HasPart(id)
    /\ IdDigits(id) # <<>>
    /\ \A k \in 1..Len(IdDigits(id)) : IsDigit(IdDigits(id)[k])

IdOffset(id) == Number(IdDigits(id))

EntriesOf(col, filename) == {e \in col : e.metadata.source = filename}

CeilDiv(a, b) == (a + b - 1) \div b

Max(a, b) == IF a > b THEN a ELSE b

-----------------------------------------------------------------------------
(* C1: once a pass over a directory has completed, a second pass over the  *)
(* unchanged directory leaves the collection exactly as the first left it  *)
(* (the same ids, each with the same text and source).                     *)
C1_IdempotentResync ==
    [][(run'.kind = "sync" /\ run'.again) => collection' = collection]_vars

\* a second, completed pass over a directory whose files gave chunks, into a
\* collection that also holds entries the pass did not write
C1_Witness ==
    /\ run.kind = "sync" /\ run.again /\ ~run.raised
    /\ Len(run.upserted) >= 3
    /\ \E e \in collection : \A k \in 1..Len(run.upserted) : run.upserted[k] # e.id

-----------------------------------------------------------------------------
(* C2 as claimed: a document of length L gives                             *)
(* ceil(max(L - 150, 0) / 650) chunks when L > 0 and none when L = 0; 2000 *)
(* characters give 3 chunks, at offsets 0, 650 and 1300.                   *)
ClaimedChunkCount(L) == IF L > 0 THEN CeilDiv(Max(L - 150, 0), 650) ELSE 0

C2_ClaimedChunkCount ==
    (run.kind = "sync" /\ ~run.raised) =>
        LET L == Len(files[A_TXT].text)
        IN  /\ Len(run.upserted) = ClaimedChunkCount(L)
            /\ L = 2000 => run.upserted = <<ChunkId(A_TXT, 0), ChunkId(A_TXT, 650),
                                            ChunkId(A_TXT, 1300)>>

(* C2 amended: a document of length L gives ceil(L / 650) chunks (none     *)
(* when L = 0), at the offsets 0, 650, ... below L; 2000 characters give 4 *)
(* chunks, at offsets 0, 650, 1300 and 1950.                               *)
C2_ChunkCount ==
    (run.kind = "sync" /\ ~run.raised) =>
        LET L == Len(files[A_TXT].text)
        IN  /\ Len(run.upserted) = CeilDiv(L, 650)
            /\ Cardinality(EntriesOf(collection, A_TXT)) = CeilDiv(L, 650)
            /\ \A k \in 1..Len(run.upserted) :
                  /\ IdWellFormed(run.upserted[k])
                  /\ IdOffset(run.upserted[k]) = 650 * (k - 1)
                  /\ IdOffset(run.upserted[k]) < L
            /\ L = 2000 =>
                  /\ Len(run.upserted) = 4
                  /\ IdOffset(run.upserted[4]) = 1950

\* the pass over the document of 2000 characters
C2_Witness ==
    /\ run.kind = "sync" /\ ~run.raised
    /\ Len(files[A_TXT].text) = 2000
    /\ Len(run.upserted) = 4

-----------------------------------------------------------------------------
(* C3: the chunks of a document of length L cover [0, L) without a gap,    *)
(* each holding the document's text of its range [i, min(i + 800, L)), and *)
(* every chunk after the first shares exactly 150 characters with the      *)
(* chunk before it, except possibly the final chunk when it is shorter     *)
(* than 800.                                                               *)
C3_ChunkCoverage ==
    (run.kind = "sync" /\ ~run.raised) =>
        LET text == files[A_TXT].text
            L == Len(text)
            chunks == EntriesOf(collection, A_TXT)
            first == [e \in chunks |-> IdOffset(e.id)]
            end == [e \in chunks |-> first[e] + Len(e.document)]
            IsFinal(e) == \A x \in chunks : first[x] <= first[e]
        IN  /\ \A e \in chunks :
                  /\ IdWellFormed(e.id)
                  /\ end[e] = Min(first[e] + 800, L)
                  /\ e.document = SubSeq(text, first[e] + 1, end[e])
            /\ UNION {first[e]..(end[e] - 1) : e \in chunks} = 0..(L - 1)
            /\ \A e \in chunks :
                  first[e] > 0 =>
                      \E prev \in chunks :
                          /\ first[prev] < first[e]
                          /\ \A x \in chunks : first[x] < first[e] => first[x] <= first[prev]
                          /\ \/ Min(end[prev], end[e]) - first[e] = 150
                             \/ IsFinal(e) /\ Len(e.document) < 800

\* a document whose final chunk is shorter than the overlap, after full chunks
C3_Witness ==
    /\ run.kind = "sync" /\ ~run.raised
    /\ Len(files[A_TXT].text) = 2000
    /\ \E e \in collection : IdOffset(e.id) = 1950 /\ Len(e.document) = 50
    /\ \E e \in collection : IdOffset(e.id) = 1300 /\ Len(e.document) = 700

-----------------------------------------------------------------------------
(* C4 as claimed: a file whose read or extraction raises during a pass has *)
(* no chunk upserted by that pass.                                         *)
C4_FailedFileSkipped ==
    run.kind = "sync" =>
        \A k \in 1..Len(run.errors) :
            \A j \in 1..Len(run.upserted) :
                IdFilename(run.upserted[j]) # run.errors[k]

-----------------------------------------------------------------------------
(* C5: whatever entries fail to read, a pass in which no upsert raises     *)
(* returns the success string, and the collection then holds every chunk   *)
(* of every .txt/.pdf entry that was read without a failure.               *)
RECURSIVE PagesText(_)
PagesText(pages) ==
    IF pages = <<>> THEN <<>>
    ELSE (IF Head(pages).text = <<>> THEN <<>> ELSE Head(pages).text \o <<NL>>)
         \o PagesText(Tail(pages))

C5_FailuresNotFatal ==
    (run.kind = "sync" /\ ~run.raised) =>
        /\ run.msg = SyncDoneMsg
        /\ \A f \in Listing :
              (f \in {A_TXT, B_PDF} /\ ~ReadFails(f, files[f])) =>
                  LET content == IF f = B_PDF THEN PagesText(files[f].pages)
                                 ELSE files[f].text
                  IN  \A i \in 0..(Len(content) - 1) :
                          i % 650 = 0 =>
                              [id |-> f \o PART \o Str(i),
                               document |-> SubSeq(content, i + 1, Min(i + 800, Len(content))),
                               metadata |-> [source |-> f]] \in collection

\* a pass that reported a.txt unreadable and upserted the chunks of the .pdf
C5_Witness ==
    /\ run.kind = "sync" /\ ~run.raised
    /\ run.errors = <<A_TXT>>
    /\ run.upserted = <<ChunkId(B_PDF, 0), ChunkId(B_PDF, 650)>>
    /\ files[C_MD].present

-----------------------------------------------------------------------------
(* C6: no step removes a chunk id from the collection, and a pass leaves   *)
(* untouched every entry of a file that is no longer in the directory and  *)
(* every entry at an offset at or past the end of its file's content.      *)
C6_NeverDeletes ==
    [][/\ \A e \in collection : \E x \in collection' : x.id = e.id
       /\ \A e \in collection :
             LET f == e.metadata.source
             IN  (~files[f].present \/ IdOffset(e.id) >= Len(Content(f, files[f])))
                     => e \in collection']_vars

\* after a pass: the .pdf is gone and its entries remain; a.txt was shortened
\* and the entry past its new end keeps the old text
C6_Witness ==
    /\ run.kind = "sync" /\ ~run.raised
    /\ ~files[B_PDF].present /\ EntriesOf(collection, B_PDF) # {}
    /\ files[A_TXT] = TxtFile(ShortText)
    /\ \E e \in collection :
          /\ e.id = ChunkId(A_TXT, 1300)
          /\ e.document = SubSeq(LongText, 1301, Len(LongText))
    /\ \E e \in collection :
          /\ e.id = ChunkId(A_TXT, 650)
          /\ e.document = SubSeq(ShortText, 651, Len(ShortText))

-----------------------------------------------------------------------------
(* C7: from the empty collection, the collection always holds at most one  *)
(* entry per chunk id, and every entry's id reads "<filename>_part_<i>"    *)
(* with <filename> its metadata source, i a multiple of 650, and its text  *)
(* non-empty and at most 800 long.                                         *)
C7_WellFormed ==
    /\ \A e1, e2 \in collection : e1.id = e2.id => e1 = e2
    /\ \A e \in collection :
          /\ IdWellFormed(e.id)
          /\ IdFilename(e.id) = e.metadata.source
          /\ IdOffset(e.id) % 650 = 0
          /\ e.document # <<>>
          /\ Len(e.document) <= 800

\* a collection in which an entry was overwritten by a later pass
C7_Witness ==
    /\ Cardinality(collection) >= 5
    /\ \E e \in collection :
          /\ e.id = ChunkId(A_TXT, 0)
          /\ e.document = ShortText
    /\ \E e \in collection : e.id = ChunkId(A_TXT, 1300)

-----------------------------------------------------------------------------
(* C8: the results of a query are at most 3 and at most as many as the     *)
(* collection has entries, each is the text and metadata of an entry of    *)
(* the collection, and an empty collection gives an empty result list.     *)
C8_TopK ==
    (run.kind = "query" /\ run.retrieved) =>
        /\ Len(run.contexts) <= 3
        /\ Len(run.contexts) <= Cardinality(collection)
        /\ Len(run.metadatas) = Len(run.contexts)
        /\ \A k \in 1..Len(run.contexts) :
              \E e \in collection :
                  e.document = run.contexts[k] /\ e.metadata = run.metadatas[k]
        /\ collection = {} => run.contexts = <<>>

\* a query of a collection of five entries
C8_Witness ==
    /\ run.kind = "query" /\ run.retrieved
    /\ Cardinality(collection) = 5
    /\ Len(run.contexts) = 3

-----------------------------------------------------------------------------
(* C9: the source list holds each source of the results exactly once and   *)
(* nothing else, and context_text is the blocks "[<source>]: <text>" of    *)
(* the results, in their order, with a blank line between two blocks.      *)
Block(k) == <<"[">> \o run.metadatas[k].source \o <<"]", ":", " ">> \o run.contexts[k]

RECURSIVE BlockStart(_)
BlockStart(k) == IF k = 1 THEN 1 ELSE BlockStart(k - 1) + Len(Block(k - 1)) + 2

C9_SourceDedup ==
    (run.kind = "query" /\ run.retrieved) =>
        LET n == Len(run.contexts)
            text == run.context_text
        IN  /\ \A f \in Filenames \cup {run.sources[k] : k \in 1..Len(run.sources)} :
                  Cardinality({k \in 1..Len(run.sources) : run.sources[k] = f})
                      = IF \E j \in 1..Len(run.metadatas) : run.metadatas[j].source = f
                        THEN 1 ELSE 0
            /\ Len(text) = IF n = 0 THEN 0 ELSE BlockStart(n) + Len(Block(n)) - 1
            /\ \A k \in 1..n :
                  /\ SubSeq(text, BlockStart(k), BlockStart(k) + Len(Block(k)) - 1) = Block(k)
                  /\ k < n => /\ text[BlockStart(k) + Len(Block(k))] = NL
                              /\ text[BlockStart(k) + Len(Block(k)) + 1] = NL

\* results whose sources are a.txt, a.txt and the .pdf
C9_Witness ==
    /\ run.kind = "query" /\ run.retrieved
    /\ Len(run.metadatas) = 3
    /\ run.metadatas[1].source = A_TXT
    /\ run.metadatas[2].source = A_TXT
    /\ run.metadatas[3].source = B_PDF
    /\ Len(run.sources) = 2

-----------------------------------------------------------------------------
(* C10: when the query returns no result, context_text and the source list *)
(* are empty, the prompt, holding the decline instruction, is sent to the  *)
(* completion service exactly once, and when the service answers, the      *)
(* footer with an empty list is appended to the answer.                    *)
C10_EmptyRetrieval ==
    (run.kind = "query" /\ run.retrieved /\ run.contexts = <<>>) =>
        /\ run.context_text = <<>>
        /\ run.sources = <<>>
        /\ Len(run.calls) = 1
        /\ \E i \in 1..Len(run.calls[1]) : run.calls[1][i] = DeclineInstruction
        /\ ~run.raised =>
              /\ run.full_response
                     = run.response \o <<NL, NL, "-", "-", "-", NL, "**referenced files:** ">>
              /\ messages[Len(messages)]
                     = [role |-> "assistant", content |-> run.full_response]

\* an answered turn over the empty collection
C10_Witness ==
    /\ run.kind = "query" /\ run.retrieved
    /\ collection = {}
    /\ run.contexts = <<>>
    /\ ~run.raised
    /\ run.response # <<>>

=============================================================================
